---------------------------- MODULE Spec2Model ----------------------------
(***************************************************************************)
(* Model of jupyterhub/handlers/base.py: BaseHandler's token / cookie      *)
(* authentication, the login-cookie issuance, the single-user server       *)
(* lifecycle coroutines (spawn_single_user, user_stopped,                  *)
(* stop_single_user) and the UserSpawnHandler.get dispatch.                *)
(*                                                                         *)
(* Every `yield` of a tornado coroutine is a suspension point: a coroutine *)
(* is modelled by one action per segment between two yields.  The ORM      *)
(* (orm.User, orm.APIToken, orm.CookieToken), the spawner and the proxy    *)
(* are collaborators whose code is not in base.py; they are modelled from  *)
(* their contracts.                                                        *)
(***************************************************************************)
EXTENDS Integers, Sequences, FiniteSets, TLC

\* ------------------------------------------------------------------ bounds
\* Number of CookieToken rows the store may hold.
MaxTokens == 4
\* Number of backends that may be started per user.
MaxSpawns == 2

\* --------------------------------------------------------------- universes
Users == {"alice", "bob"}
\* Concurrent request handlers the IOLoop may have in flight.
Requests == {"r1", "r2"}
None == "none"
\* Values of orm.CookieToken.token.
TokenIds == 1..MaxTokens
\* A cookie value that is no CookieToken of the store (stale or forged).
Bogus == 0
\* self.get_cookie(name, None): the request carries no such cookie.
NoCookie == -1
\* Generations of a user's backend (the n-th process spawned for the user).
Gens == 1..MaxSpawns
NoGen == 0

\* The orm.APIToken table: token -> owning user (validity = existence).
APITokens == [ta |-> "alice", tb |-> "bob"]
\* Authorization headers a request may carry, as whitespace-separated words;
\* <<>> is the absent header ('' in get_current_user_token).
Headers ==
    { <<>>,
      <<"token", "ta">>, <<"token", "tb">>, <<"token", "tx">>,
      <<"Token", "ta">>, <<"token">>, <<"token", "ta", "tb">> }

\* hub.server.base_url and the request paths /hub/user/<name>/x.
HubBaseUrl == <<"/", "hub", "/">>
HubCookieName == <<"hub">>
LoginUrl == <<"/", "hub", "/", "login">>
RequestPath(name) == HubBaseUrl \o <<"user", "/", name, "/", "x">>
\* user.server.cookie_name and user.server.base_url of a user's backend.
ServerCookieName(u) == <<"hub", u>>
ServerBaseUrl(u) == <<"/", "user", "/", u>>

VARIABLES
    cookieTokens,   \* orm.CookieToken table: token id -> user, None if not minted
    scopeOf,        \* history: the cookie scope each CookieToken was set under
    jar,            \* the client's hub-scope cookie value (NoCookie if none)
    spawner,        \* user.spawner: generation of the handle, NoGen if unset
    server,         \* user.server: generation of the backend, NoGen if unset
    route,          \* proxy routing table: user -> backend generation routed to
    proc,           \* spawner side: state of each backend process
    watch,          \* poll callback (watchdog) of each backend
    stopper,        \* stop_single_user coroutine of each user
    req             \* the request handlers (UserSpawnHandler.get) in flight

vars == <<cookieTokens, scopeOf, jar, spawner, server, route, proc, watch,
          stopper, req>>
lifeVars == <<spawner, server, route, proc, watch>>


\* ------------------------------------------------------- identity store
\* orm.APIToken.find(db, token): the owning user, None if no such row.
APITokenFind(token) ==
    IF token \in DOMAIN APITokens THEN APITokens[token] ELSE None

\* orm.CookieToken.find(db, token) on a given table: lookup by exact value.
CookieTokenFind(store, token) ==
    IF token \in TokenIds THEN store[token] ELSE None

\* user.new_cookie_token(): a fresh value, never one already in the table.
NewToken(store) ==
    CHOOSE t \in TokenIds :
        /\ store[t] = None
        /\ \A t2 \in TokenIds : store[t2] = None => t <= t2

TokensFree == Cardinality({t \in TokenIds : cookieTokens[t] = None})

\* ------------------------------------------------------- authentication
\* auth_header_pat = ^token\s+([^\s]+)$ : the scheme word and exactly one token.
AuthHeaderMatch(auth_header) ==
    /\ Len(auth_header) = 2
    /\ auth_header[1] = "token"

\* get_current_user_token: the user owning the header's API token, or None.
get_current_user_token(auth_header) ==
    IF ~AuthHeaderMatch(auth_header)
    THEN None
    ELSE APITokenFind(auth_header[2])

\* self.clear_cookie(self.hub.server.cookie_name, path=self.hub.server.base_url)
ClearHubCookie ==
    [name |-> HubCookieName, value |-> NoCookie, path |-> HubBaseUrl]

\* get_current_user_cookie against a given table, for the hub cookie value the
\* request carries: the user, the number of CookieToken lookups made and the
\* Set-Cookie operations added to the response.
CookieCheck(store, token) ==
    IF token # NoCookie
    THEN LET cookie_user == CookieTokenFind(store, token) IN
         IF cookie_user # None
         THEN [user |-> cookie_user, lookups |-> 1, cookies |-> <<>>]
         ELSE [user |-> None, lookups |-> 1, cookies |-> <<ClearHubCookie>>]
    ELSE [user |-> None, lookups |-> 0, cookies |-> <<>>]

\* Mutant of get_current_user_cookie: an invalid cookie is left in place.
get_current_user_cookie_no_clear(token) ==
    [CookieCheck(cookieTokens, token) EXCEPT !.cookies = <<>>]

\* get_current_user_cookie on the table as it is now.
get_current_user_cookie(token) == CookieCheck(cookieTokens, token)

\* Mutant of get_current_user: the hub cookie is checked first.
get_current_user_cookie_first(auth_header, token) ==
    LET c == get_current_user_cookie(token)
        user == get_current_user_token(auth_header)
    IN  IF c.user # None \/ user = None
        THEN [user |-> c.user, lookups |-> c.lookups, cookies |-> c.cookies,
              touched |-> FALSE]
        ELSE [user |-> user, lookups |-> c.lookups, cookies |-> c.cookies,
              touched |-> TRUE]

\* Mutant of get_current_user: a well-formed header with an unknown token
\* is an authentication failure, the hub cookie is not looked at.
get_current_user_no_fallthrough(auth_header, token) ==
    LET user == get_current_user_token(auth_header) IN
    IF user # None
    THEN [user |-> user, lookups |-> 0, cookies |-> <<>>, touched |-> TRUE]
    ELSE IF AuthHeaderMatch(auth_header)
    THEN [user |-> None, lookups |-> 0, cookies |-> <<>>, touched |-> FALSE]
    ELSE LET c == get_current_user_cookie(token) IN
         [user |-> c.user, lookups |-> c.lookups, cookies |-> c.cookies,
          touched |-> FALSE]

\* get_current_user: the API token first, the hub cookie only without one.
\* touched: user.last_activity was written.
get_current_user(auth_header, token) ==
    LET user == get_current_user_token(auth_header) IN
    IF user # None
    THEN [user |-> user, lookups |-> 0, cookies |-> <<>>, touched |-> TRUE]
    ELSE LET c == get_current_user_cookie(token) IN
         [user |-> c.user, lookups |-> c.lookups, cookies |-> c.cookies,
          touched |-> FALSE]

\* ------------------------------------------------------- login cookies
\* Mutant of clear_login_cookie: the row of the presented cookie token is
\* deleted from the table as well.
clear_login_cookie_deleting_row(auth_header, token) ==
    LET a == get_current_user(auth_header, token) IN
    [lookups |-> a.lookups, touched |-> a.touched,
     cookies |-> a.cookies \o <<ClearHubCookie>>,
     store |-> [t \in TokenIds |->
                   IF t = token THEN None ELSE cookieTokens[t]]]

\* clear_login_cookie: authenticates again, clears the backend cookie of the
\* resolved user if it has a server, then the hub cookie.  store: the
\* CookieToken table afterwards.
clear_login_cookie(auth_header, token) ==
    LET a == get_current_user(auth_header, token)
        backend ==
            IF a.user # None /\ server[a.user] # NoGen
            THEN <<[name |-> ServerCookieName(a.user), value |-> NoCookie,
                    path |-> ServerBaseUrl(a.user)]>>
            ELSE <<>>
    IN  [lookups |-> a.lookups, touched |-> a.touched,
         cookies |-> a.cookies \o backend \o <<ClearHubCookie>>,
         store |-> cookieTokens]

\* Mutant of set_login_cookie: a hub cookie token is minted on every call,
\* also when the request carries a valid hub cookie.
set_login_cookie_always_hub(user, token) ==
    LET hasServer == server[user] # NoGen
        t1 == NewToken(cookieTokens)
        store1 == IF hasServer THEN [cookieTokens EXCEPT ![t1] = user]
                  ELSE cookieTokens
        scope1 == IF hasServer THEN [scopeOf EXCEPT ![t1] = "backend"]
                  ELSE scopeOf
        ops1 == IF hasServer
                THEN <<[name |-> ServerCookieName(user), value |-> t1,
                        path |-> ServerBaseUrl(user)]>>
                ELSE <<>>
        t2 == NewToken(store1)
    IN  [store |-> [store1 EXCEPT ![t2] = user],
         scopes |-> [scope1 EXCEPT ![t2] = "hub"], lookups |-> 0,
         cookies |-> ops1 \o <<[name |-> HubCookieName, value |-> t2,
                                path |-> HubBaseUrl]>>]

\* set_login_cookie(user) for a request carrying hub cookie value `token`:
\* the table afterwards, the scope each new row was issued for, the
\* Set-Cookie operations and the number of lookups.
set_login_cookie(user, token) ==
    LET hasServer == server[user] # NoGen
        t1 == NewToken(cookieTokens)
        store1 == IF hasServer THEN [cookieTokens EXCEPT ![t1] = user]
                  ELSE cookieTokens
        scope1 == IF hasServer THEN [scopeOf EXCEPT ![t1] = "backend"]
                  ELSE scopeOf
        ops1 == IF hasServer
                THEN <<[name |-> ServerCookieName(user), value |-> t1,
                        path |-> ServerBaseUrl(user)]>>
                ELSE <<>>
        c == CookieCheck(store1, token)
        issue == c.user = None
        t2 == NewToken(store1)
        store2 == IF issue THEN [store1 EXCEPT ![t2] = user] ELSE store1
        scope2 == IF issue THEN [scope1 EXCEPT ![t2] = "hub"] ELSE scope1
        ops2 == IF issue
                THEN <<[name |-> HubCookieName, value |-> t2,
                        path |-> HubBaseUrl]>>
                ELSE <<>>
    IN  [store |-> store2, scopes |-> scope2, lookups |-> c.lookups,
         cookies |-> ops1 \o c.cookies \o ops2]

\* The hub cookie a client holds after a response's Set-Cookie operations:
\* the last operation on the hub cookie name wins.
RECURSIVE ApplyCookies(_, _)
ApplyCookies(held, ops) ==
    IF ops = <<>> THEN held
    ELSE ApplyCookies(IF Head(ops).name = HubCookieName THEN Head(ops).value
                      ELSE held,
                      Tail(ops))

\* ------------------------------------------------------- error presentation
\* Status codes write_error is called with; 599 has no standard phrase.
StatusCodes == {403, 404, 500, 599}

\* http.client.responses.get(status_code, 'Unknown HTTP Error')
StatusPhrase(status_code) ==
    CASE status_code = 403 -> "Forbidden"
      [] status_code = 404 -> "Not Found"
      [] status_code = 500 -> "Internal Server Error"
      [] OTHER -> "Unknown HTTP Error"

\* kwargs.get('exc_info'): absent, or an exception whose log_message is
\* missing ("noattr"), None ("none"), a format its args fit ("ok") or do
\* not fit ("bad"), and whose reason is missing/empty ("") or a custom one.
NoCause == [given |-> FALSE, log_message |-> "noattr", reason |-> ""]
Causes ==
    {NoCause} \cup
    [given : {TRUE}, log_message : {"noattr", "none", "ok", "bad"},
     reason : {"", "Custom Reason"}]

\* '%s.html' % status_code
TemplateName(status_code) ==
    CASE status_code = 403 -> "403.html"
      [] status_code = 404 -> "404.html"
      [] status_code = 500 -> "500.html"
      [] OTHER -> "599.html"

\* The templates of settings['jinja2_env']: the generic error.html and any
\* of the status-specific ones.
TemplateSets ==
    {ts \cup {"error.html"} : ts \in SUBSET {"403.html", "404.html", "500.html"}}

\* No page written.
NoPage ==
    [raised |-> "none", template |-> "none", status_code |-> 0,
     status_message |-> "", message |-> "", renders |-> 0]

\* write_error(status_code, exc_info=cause) with the given templates: the
\* exception that leaves it ("none" if it returns), the template rendered,
\* the namespace it is rendered with and the number of render_template calls.
write_error(status_code, cause, templates) ==
    LET message == IF cause.given /\ cause.log_message = "ok"
                   THEN "formatted" ELSE ""
        status_message == IF cause.given /\ cause.reason # ""
                          THEN cause.reason ELSE StatusPhrase(status_code)
        name == TemplateName(status_code)
    IN  IF ~cause.given
        THEN \* ns = dict(..., exception=exception): `exception` is unbound
             [NoPage EXCEPT !.raised = "UnboundLocalError"]
        ELSE IF name \in templates
        THEN [raised |-> "none", template |-> name,
              status_code |-> status_code, status_message |-> status_message,
              message |-> message, renders |-> 1]
        ELSE IF "error.html" \in templates
        THEN [raised |-> "none", template |-> "error.html",
              status_code |-> status_code, status_message |-> status_message,
              message |-> message, renders |-> 2]
        ELSE [NoPage EXCEPT !.raised = "TemplateNotFound", !.renders = 2]

\* ------------------------------------------------------- request state
\* A handler slot with no request in it.
IdleReq ==
    [pc |-> "idle", name |-> None, user |-> None, token |-> NoCookie,
     header |-> <<>>,
     auth |-> [user |-> None, lookups |-> 0, cookies |-> <<>>,
               touched |-> FALSE],
     handle |-> NoGen, cookies |-> <<>>, resp |-> "none",
     location |-> [url |-> <<>>, next |-> <<>>], page |-> NoPage]

\* Requests suspended inside the spawn branch of UserSpawnHandler.get.
InFlight == {r \in Requests : req[r].pc \in {"poll", "spawn", "addroute"}}

\* Every response has reached the client.  The client receives a response as
\* soon as it is written: nothing else happens in between.
Delivered == \A r \in Requests : req[r].pc # "responded"

\* Backends started so far for a user.
Started(u) == {k \in Gens : proc[u][k] # "unused"}

\* Fewer than MaxSpawns backends are started or being started.
SpawnsLeft ==
    Cardinality({uk \in Users \X Gens : proc[uk[1]][uk[2]] # "unused"})
        + Cardinality({r \in Requests : req[r].pc = "spawn"}) < MaxSpawns

\* self.request.path[len(self.hub.server.base_url):], with a leading '/'.
WithoutPrefix(path) ==
    LET without_prefix == SubSeq(path, Len(HubBaseUrl) + 1, Len(path)) IN
    IF without_prefix # <<>> /\ Head(without_prefix) = "/"
    THEN without_prefix
    ELSE <<"/">> \o without_prefix

\* url_concat(self.settings['login_url'], {'next': self.request.path})
LoginRedirect(path) == [url |-> LoginUrl, next |-> path]

Init ==
    /\ cookieTokens = [t \in TokenIds |-> None]
    /\ scopeOf = [t \in TokenIds |-> "none"]
    /\ jar = NoCookie
    /\ spawner = [u \in Users |-> NoGen]
    /\ server = [u \in Users |-> NoGen]
    /\ route = [u \in Users |-> NoGen]
    /\ proc = [u \in Users |-> [k \in Gens |-> "unused"]]
    /\ watch = [u \in Users |-> [k \in Gens |->
                    [pc |-> "none", handle |-> NoGen, n |-> 0]]]
    /\ stopper = [u \in Users |-> [pc |-> "idle", handle |-> NoGen]]
    /\ req = [r \in Requests |-> IdleReq]

\* ------------------------------------------------------- the client
\* The client chooses the hub cookie it sends: none, a value that is no
\* CookieToken, or the value of any cookie (hub or backend) the hub has
\* handed out.
PresentCookie(v) ==
    /\ Delivered
    /\ v \in {NoCookie, Bogus} \cup {t \in TokenIds : cookieTokens[t] # None}
    /\ v # jar
    /\ jar' = v
    /\ UNCHANGED <<cookieTokens, scopeOf, spawner, server, route, proc, watch,
                   stopper, req>>

\* The client receives a response and applies its Set-Cookie headers.
Deliver(r) ==
    /\ req[r].pc = "responded"
    /\ jar' = ApplyCookies(jar, req[r].cookies)
    /\ req' = [req EXCEPT ![r] = IdleReq]
    /\ UNCHANGED <<cookieTokens, scopeOf, spawner, server, route, proc, watch,
                   stopper>>

\* ------------------------------------------------------- dispatch
\* The tail of the spawn branch of UserSpawnHandler.get: set_login_cookie,
\* then the redirect to the path without the hub prefix.
FinishDispatch(r) ==
    LET s == set_login_cookie(req[r].user, req[r].token) IN
    /\ cookieTokens' = s.store
    /\ scopeOf' = s.scopes
    /\ req' = [req EXCEPT ![r].pc = "responded",
                          ![r].cookies = @ \o s.cookies,
                          ![r].resp = "backend",
                          ![r].location =
                              [url |-> WithoutPrefix(RequestPath(req[r].name)),
                               next |-> <<>>]]

\* An exception leaves the handler: the request ends in an error page.
FailDispatch(r) ==
    req' = [req EXCEPT ![r].pc = "responded", ![r].resp = "error"]

\* Mutant of Matches: any authenticated user passes.
MatchesAnyUser(current_user, name) == current_user # None

\* `if current_user and current_user.name == name`
Matches(current_user, name) == current_user # None /\ current_user = name

\* UserSpawnHandler.get up to its first yield.
GetStart(r, auth_header, name) ==
    /\ Delivered
    /\ req[r].pc = "idle"
    /\ LET a == get_current_user(auth_header, jar)
           base == [IdleReq EXCEPT !.name = name, !.user = a.user,
                                   !.token = jar, !.header = auth_header,
                                   !.auth = a, !.cookies = a.cookies]
       IN
       IF Matches(a.user, name)
       THEN /\ TokensFree >= 2 * (Cardinality(InFlight) + 1)
            /\ UNCHANGED cookieTokens
            /\ IF spawner[name] # NoGen
               THEN \* status = yield current_user.spawner.poll()
                    req' = [req EXCEPT ![r] =
                               [base EXCEPT !.pc = "poll",
                                            !.handle = spawner[name]]]
               ELSE \* yield self.spawn_single_user(current_user)
                    /\ SpawnsLeft
                    /\ req' = [req EXCEPT ![r] = [base EXCEPT !.pc = "spawn"]]
       ELSE LET c == clear_login_cookie(auth_header, jar) IN
            /\ cookieTokens' = c.store
            /\ req' = [req EXCEPT ![r] =
                          [base EXCEPT !.pc = "responded",
                                       !.cookies = @ \o c.cookies,
                                       !.resp = "login",
                                       !.location =
                                           LoginRedirect(RequestPath(name))]]
    /\ UNCHANGED <<scopeOf, jar, spawner, server, route, proc, watch, stopper>>

\* spawner.poll() of a backend: None while the process runs.
Poll(u, k) == IF proc[u][k] \in {"alive", "stopping"} THEN None ELSE "exited"

\* Mutant of NeedsSpawn: the poll result is ignored, every dispatch spawns.
NeedsSpawnAlways(status) == TRUE

\* `if status is not None`: the polled backend has exited, spawn again.
NeedsSpawn(status) == status # None

\* The poll of the spawn branch returns.
PollReturn(r) ==
    /\ Delivered
    /\ req[r].pc = "poll"
    /\ LET status == Poll(req[r].user, req[r].handle) IN
       IF NeedsSpawn(status)
       THEN \* yield self.spawn_single_user(current_user)
            /\ SpawnsLeft
            /\ req' = [req EXCEPT ![r].pc = "spawn"]
            /\ UNCHANGED <<cookieTokens, scopeOf>>
       ELSE FinishDispatch(r)
    /\ UNCHANGED <<jar, spawner, server, route, proc, watch, stopper>>

\* ------------------------------------------------------- spawn_single_user
\* The generation of the next backend started for a user.
NextGen(u) == Cardinality(Started(u)) + 1

\* Mutant of SpawnReturn: a failed start is not propagated, add_user is
\* called for the backend that never started.
SpawnReturnRoutesAnyway(r, ok) ==
    /\ Delivered
    /\ req[r].pc = "spawn"
    /\ LET u == req[r].user
           k == NextGen(u)
       IN
       /\ IF ok
          THEN /\ proc' = [proc EXCEPT ![u][k] = "alive"]
               /\ spawner' = [spawner EXCEPT ![u] = k]
               /\ server' = [server EXCEPT ![u] = k]
          ELSE UNCHANGED <<proc, spawner, server>>
       /\ req' = [req EXCEPT ![r].pc = "addroute", ![r].handle = k]
    /\ UNCHANGED <<cookieTokens, scopeOf, jar, route, watch, stopper>>

\* yield user.spawn(...) returns.  On success the backend runs and the user
\* holds its spawner handle and server descriptor, and proxy.add_user is
\* called for that server; on failure the exception leaves the handler.
SpawnReturn(r, ok) ==
    /\ Delivered
    /\ req[r].pc = "spawn"
    /\ LET u == req[r].user
           k == NextGen(u)
       IN
       IF ok
       THEN /\ proc' = [proc EXCEPT ![u][k] = "alive"]
            /\ spawner' = [spawner EXCEPT ![u] = k]
            /\ server' = [server EXCEPT ![u] = k]
            /\ req' = [req EXCEPT ![r].pc = "addroute", ![r].handle = k]
       ELSE /\ FailDispatch(r)
            /\ UNCHANGED <<proc, spawner, server>>
    /\ UNCHANGED <<cookieTokens, scopeOf, jar, route, watch, stopper>>

\* yield self.proxy.add_user(user) returns.  On success the route is
\* registered, the poll callback is added to user.spawner
\* (an AttributeError if the handle was cleared meanwhile), and get goes on
\* to set_login_cookie and the redirect.
AddRouteReturn(r, ok) ==
    /\ Delivered
    /\ req[r].pc = "addroute"
    /\ LET u == req[r].user IN
       IF ok
       THEN /\ route' = [route EXCEPT ![u] = req[r].handle]
            /\ IF spawner[u] # NoGen
               THEN /\ watch' = [watch EXCEPT
                           ![u][spawner[u]].pc =
                               IF @ = "none" THEN "armed" ELSE @,
                           ![u][spawner[u]].n = @ + 1]
                    /\ FinishDispatch(r)
               ELSE /\ FailDispatch(r)
                    /\ UNCHANGED <<watch, cookieTokens, scopeOf>>
       ELSE /\ FailDispatch(r)
            /\ UNCHANGED <<route, watch, cookieTokens, scopeOf>>
    /\ UNCHANGED <<jar, spawner, server, proc, stopper>>

\* ------------------------------------------------------- teardown
\* A backend process exits on its own.
Exit(u, k) ==
    /\ Delivered
    /\ proc[u][k] = "alive"
    /\ proc' = [proc EXCEPT ![u][k] = "exited"]
    /\ UNCHANGED <<cookieTokens, scopeOf, jar, spawner, server, route, watch,
                   stopper, req>>

\* yield self.proxy.delete_user(user) returned and `yield user.stop()` is
\* called: with no spawner handle user.stop returns at once (done), with one
\* the spawner is told to stop.  The new (pc, handle) of the coroutine.
CallUserStop(u) ==
    IF spawner[u] = NoGen
    THEN [pc |-> "done", handle |-> NoGen]
    ELSE [pc |-> "stop", handle |-> spawner[u]]

\* The process state once spawner.stop() has been called on backend k.
ToldToStop(u, k) ==
    IF k # NoGen /\ proc[u][k] = "alive"
    THEN [proc EXCEPT ![u][k] = "stopping"]
    ELSE proc

\* The process state once spawner.stop() has returned.
Stopped(u, k) ==
    IF k # NoGen /\ proc[u][k] = "stopping"
    THEN [proc EXCEPT ![u][k] = "stopped"]
    ELSE proc

\* The spawner runs the poll callback of an exited backend: user_stopped
\* starts and calls user.spawner.poll() (an AttributeError without handle).
WatchdogFire(u, k) ==
    /\ Delivered
    /\ watch[u][k].pc = "armed"
    /\ proc[u][k] = "exited"
    /\ watch' = [watch EXCEPT ![u][k].pc =
                     IF spawner[u] = NoGen THEN "done" ELSE "poll"]
    /\ UNCHANGED <<cookieTokens, scopeOf, jar, spawner, server, route, proc,
                   stopper, req>>

\* user_stopped: the poll returns, the status is logged, delete_user is called.
WatchdogPollReturn(u, k) ==
    /\ Delivered
    /\ watch[u][k].pc = "poll"
    /\ watch' = [watch EXCEPT ![u][k].pc = "delete"]
    /\ UNCHANGED <<cookieTokens, scopeOf, jar, spawner, server, route, proc,
                   stopper, req>>

\* user_stopped: delete_user returns; on success user.stop() is called, on
\* failure the exception ends the coroutine.
WatchdogDeleteReturn(u, k, ok) ==
    /\ Delivered
    /\ watch[u][k].pc = "delete"
    /\ IF ok
       THEN LET c == CallUserStop(u) IN
            /\ route' = [route EXCEPT ![u] = NoGen]
            /\ watch' = [watch EXCEPT ![u][k].pc = c.pc,
                                      ![u][k].handle = c.handle]
            /\ proc' = ToldToStop(u, c.handle)
       ELSE /\ watch' = [watch EXCEPT ![u][k].pc = "done"]
            /\ UNCHANGED <<route, proc>>
    /\ UNCHANGED <<cookieTokens, scopeOf, jar, spawner, server, stopper, req>>

\* user_stopped: user.stop() returns: the spawner has stopped and the user's
\* spawner and server are cleared.
WatchdogStopReturn(u, k) ==
    /\ Delivered
    /\ watch[u][k].pc = "stop"
    /\ proc' = Stopped(u, watch[u][k].handle)
    /\ spawner' = [spawner EXCEPT ![u] = NoGen]
    /\ server' = [server EXCEPT ![u] = NoGen]
    /\ watch' = [watch EXCEPT ![u][k].pc = "done", ![u][k].handle = NoGen]
    /\ UNCHANGED <<cookieTokens, scopeOf, jar, route, stopper, req>>

\* stop_single_user(user) is called for a user with a spawner:
\* proxy.delete_user is called.
StopStart(u) ==
    /\ Delivered
    /\ stopper[u].pc = "idle"
    /\ spawner[u] # NoGen
    /\ stopper' = [stopper EXCEPT ![u].pc = "delete"]
    /\ UNCHANGED <<cookieTokens, scopeOf, jar, spawner, server, route, proc,
                   watch, req>>

\* Mutant of StopDeleteReturn: a failed delete_user is swallowed and
\* user.stop() is called all the same.
StopDeleteReturnGoesOn(u, ok) ==
    /\ Delivered
    /\ stopper[u].pc = "delete"
    /\ LET c == CallUserStop(u) IN
       /\ route' = IF ok THEN [route EXCEPT ![u] = NoGen] ELSE route
       /\ stopper' = [stopper EXCEPT ![u] =
             [pc |-> IF c.pc = "done" THEN "idle" ELSE c.pc,
              handle |-> c.handle]]
       /\ proc' = ToldToStop(u, c.handle)
    /\ UNCHANGED <<cookieTokens, scopeOf, jar, spawner, server, watch, req>>

\* stop_single_user: delete_user returns; on success user.stop() is called.
StopDeleteReturn(u, ok) ==
    /\ Delivered
    /\ stopper[u].pc = "delete"
    /\ IF ok
       THEN LET c == CallUserStop(u) IN
            /\ route' = [route EXCEPT ![u] = NoGen]
            /\ stopper' = [stopper EXCEPT ![u] =
                  [pc |-> IF c.pc = "done" THEN "idle" ELSE c.pc,
                   handle |-> c.handle]]
            /\ proc' = ToldToStop(u, c.handle)
       ELSE /\ stopper' = [stopper EXCEPT ![u].pc = "idle"]
            /\ UNCHANGED <<route, proc>>
    /\ UNCHANGED <<cookieTokens, scopeOf, jar, spawner, server, watch, req>>

\* stop_single_user: user.stop() returns.
StopStopReturn(u) ==
    /\ Delivered
    /\ stopper[u].pc = "stop"
    /\ proc' = Stopped(u, stopper[u].handle)
    /\ spawner' = [spawner EXCEPT ![u] = NoGen]
    /\ server' = [server EXCEPT ![u] = NoGen]
    /\ stopper' = [stopper EXCEPT ![u] = [pc |-> "idle", handle |-> NoGen]]
    /\ UNCHANGED <<cookieTokens, scopeOf, jar, route, watch, req>>

\* ------------------------------------------------------- specification
\* The full lifecycle under concurrency: two handlers in flight, requests
\* addressed to one user's path (the lifecycle fields of different users are
\* never touched by the same step), a client that keeps the cookies it is
\* given and receives each response as soon as it is written, backends that
\* exit on their own, explicit stops, collaborator calls that may fail.
Targets == {"alice"}
\* The credentials of those requests: no header, the path owner's API token
\* or another user's.  (Every other header resolves like no header.)
Credentials == {<<>>, <<"token", "ta">>, <<"token", "tb">>}

Next ==
    \/ \E r \in Requests : Deliver(r)
    \/ \E r \in Requests, h \in Credentials, name \in Targets :
           GetStart(r, h, name)
    \/ \E r \in Requests : PollReturn(r)
    \/ \E r \in Requests, ok \in BOOLEAN : SpawnReturn(r, ok)
    \/ \E r \in Requests, ok \in BOOLEAN : AddRouteReturn(r, ok)
    \/ \E u \in Users, k \in Gens : Exit(u, k)
    \/ \E u \in Users, k \in Gens : WatchdogFire(u, k)
    \/ \E u \in Users, k \in Gens : WatchdogPollReturn(u, k)
    \/ \E u \in Users, k \in Gens, ok \in BOOLEAN :
           WatchdogDeleteReturn(u, k, ok)
    \/ \E u \in Users, k \in Gens : WatchdogStopReturn(u, k)
    \/ \E u \in Users : StopStart(u)
    \/ \E u \in Users, ok \in BOOLEAN : StopDeleteReturn(u, ok)
    \/ \E u \in Users : StopStopReturn(u)

Spec == Init /\ [][Next]_vars

\* Sessions: one request at a time, addressed to any user's path with any
\* header, by a client that may also present any cookie value it knows;
\* spawns and route registrations that may fail; explicit stops, which run
\* concurrently with the request.
Session == "r1"

NextSession ==
    \/ \E v \in {NoCookie, Bogus} \cup TokenIds : PresentCookie(v)
    \/ Deliver(Session)
    \/ \E h \in Headers, name \in Users : GetStart(Session, h, name)
    \/ PollReturn(Session)
    \/ \E ok \in BOOLEAN : SpawnReturn(Session, ok)
    \/ \E ok \in BOOLEAN : AddRouteReturn(Session, ok)
    \/ \E u \in Users : StopStart(u)
    \/ \E u \in Users, ok \in BOOLEAN : StopDeleteReturn(u, ok)
    \/ \E u \in Users : StopStopReturn(u)

SpecSession == Init /\ [][NextSession]_vars

\* Self-healing: one request at a time on one user's path, backends that
\* exit on their own and their watchdogs; the spawner and the proxy never
\* fail and nobody calls stop_single_user.
NextHeal ==
    \/ Deliver(Session)
    \/ \E h \in Headers, name \in Targets : GetStart(Session, h, name)
    \/ PollReturn(Session)
    \/ SpawnReturn(Session, TRUE)
    \/ AddRouteReturn(Session, TRUE)
    \/ \E u \in Users, k \in Gens : Exit(u, k)
    \/ \E u \in Users, k \in Gens : WatchdogFire(u, k)
    \/ \E u \in Users, k \in Gens : WatchdogPollReturn(u, k)
    \/ \E u \in Users, k \in Gens : WatchdogDeleteReturn(u, k, TRUE)
    \/ \E u \in Users, k \in Gens : WatchdogStopReturn(u, k)

SpecHeal == Init /\ [][NextHeal]_vars

\* ------------------------------------------------------- error pages
\* The framework calls write_error for a request.  Each render_template call
\* builds template_namespace, which runs get_current_user.
WriteError(r, auth_header, status_code, cause, templates) ==
    /\ Delivered
    /\ req[r].pc = "idle"
    /\ LET p == write_error(status_code, cause, templates)
           a == get_current_user(auth_header, jar)
       IN
       req' = [req EXCEPT ![r] =
                  [IdleReq EXCEPT !.pc = "responded", !.resp = "page",
                                  !.token = jar, !.header = auth_header,
                                  !.auth = a,
                                  !.cookies = IF p.renders = 0 THEN <<>>
                                              ELSE IF p.renders = 1
                                              THEN a.cookies
                                              ELSE a.cookies \o a.cookies,
                                  !.page = p]]
    /\ UNCHANGED <<cookieTokens, scopeOf, jar, spawner, server, route, proc,
                   watch, stopper>>

\* Error presentation alone: any status code, any cause, any set of
\* status-specific templates, with or without credentials.
NextError ==
    \/ \E v \in {NoCookie, Bogus} : PresentCookie(v)
    \/ \E r \in Requests : Deliver(r)
    \/ \E r \in Requests, h \in Headers, status_code \in StatusCodes,
          cause \in Causes, templates \in TemplateSets :
           WriteError(r, h, status_code, cause, templates)

SpecError == Init /\ [][NextError]_vars


\* ------------------------------------------------------- properties
\* The hub cookie the client holds once it has applied the response of r.
HeldAfter(r) == ApplyCookies(req[r].token, req[r].cookies)

\* C1: a request whose Authorization header carries a stored API token is
\* authenticated as the owner of that token whatever hub cookie it carries,
\* without any CookieToken lookup and without clearing any cookie.
C1_TokenPrecedence ==
    [][\A r \in Requests, h \in Headers, name \in Users :
          (/\ req[r].pc = "idle" /\ req'[r].pc # "idle"
           /\ AuthHeaderMatch(h)
           /\ h[2] \in DOMAIN APITokens
           /\ GetStart(r, h, name))
          => /\ req'[r].auth.user = APITokens[h[2]]
             /\ req'[r].user = APITokens[h[2]]
             /\ req'[r].auth.lookups = 0
             /\ req'[r].auth.cookies = <<>>]_vars

\* C1 witness: a request authenticated by its API token while it carried a
\* valid hub cookie of another user.
C1_Witness ==
    \E r \in Requests :
        /\ req[r].pc # "idle"
        /\ req[r].auth.touched
        /\ req[r].auth.user = "alice"
        /\ CookieTokenFind(cookieTokens, req[r].token) = "bob"

C3_RoundTripAlways ==
    \A r \in Requests :
        (/\ req[r].pc = "responded" /\ req[r].resp = "backend"
         /\ (req[r].token \in TokenIds => scopeOf[req[r].token] = "hub"))
        => CookieTokenFind(cookieTokens, HeldAfter(r)) = req[r].user

\* C4: a token issued under a backend cookie is never accepted by the hub
\* cookie check when it is presented under the hub cookie name.
C4_NoCrossAccept ==
    \A r \in Requests :
        (/\ req[r].pc # "idle"
         /\ ~req[r].auth.touched
         /\ req[r].token \in TokenIds
         /\ scopeOf[req[r].token] = "backend")
        => req[r].auth.user = None


\* No request, stop or watchdog is working on the user's lifecycle, and no
\* poll callback is waiting to run.
Quiescent(u) ==
    /\ \A r \in InFlight : req[r].user # u
    /\ stopper[u].pc = "idle"
    /\ \A k \in Gens :
        /\ watch[u][k].pc \notin {"poll", "delete", "stop"}
        /\ ~(watch[u][k].pc = "armed" /\ proc[u][k] = "exited")

\* C5: when no lifecycle operation is in flight for a user, the proxy holds a
\* route for the user only if user.server is set and the backend the route
\* points to was started and has not been torn down.
C5_NoDanglingRoute ==
    \A u \in Users :
        (Quiescent(u) /\ route[u] # NoGen)
        => /\ server[u] = route[u]
           /\ proc[u][route[u]] \in {"alive", "exited"}

\* C6: a dispatch for a user whose spawner handle is set only polls it, and
\* when the poll finds the backend alive the dispatch starts no backend,
\* registers no route and installs no poll callback: it goes on to the
\* redirect with the lifecycle state unchanged.
C6_NoSpawnWhenAlive ==
    [][\A r \in Requests :
          /\ \A h \in Headers, name \in Users :
                (/\ req[r].pc = "idle" /\ req'[r].pc # "idle"
                 /\ spawner[name] # NoGen
                 /\ get_current_user(h, jar).user = name
                 /\ GetStart(r, h, name))
                => req'[r].pc = "poll" /\ UNCHANGED lifeVars
          /\ (/\ req[r].pc = "poll"
              /\ req'[r].pc # "poll"
              /\ proc[req[r].user][req[r].handle] = "alive")
             => /\ UNCHANGED lifeVars
                /\ req'[r].pc = "responded"
                /\ req'[r].resp = "backend"]_vars

\* C6 witness: a second dispatch (it carried the hub cookie issued by an
\* earlier one) has been answered with the redirect while one backend was
\* started, one route registered and one poll callback installed in total.
C6_Witness ==
    \E r \in Requests :
        /\ req[r].pc = "responded" /\ req[r].resp = "backend"
        /\ req[r].token \in TokenIds
        /\ ~req[r].auth.touched
        /\ Started(req[r].user) = {1}
        /\ proc[req[r].user][1] = "alive"
        /\ route[req[r].user] = 1
        /\ watch[req[r].user][1].n = 1

\* C7: when a spawn begins for a user one of whose backends has exited on
\* its own, the watchdog teardown of that exit has completed: user.server is
\* cleared and the poll callback has run to its end.
C7_WatchdogBeforeRespawn ==
    [][\A r \in Requests :
          (req[r].pc # "spawn" /\ req'[r].pc = "spawn")
          => LET u == req'[r].user IN
             (\E k \in Gens : proc[u][k] = "exited")
             => /\ server[u] = NoGen
                /\ \A k \in Gens :
                      proc[u][k] = "exited" => watch[u][k].pc = "done"]_vars

\* C8: no backend has been told to stop while the proxy still holds the
\* route to it.
C8_NoStopWhileRouted ==
    \A u \in Users, k \in Gens :
        proc[u][k] = "stopping" => route[u] # k

\* C9: a dispatch whose resolved identity is absent or is not the user of the
\* path starts no poll and no spawn, changes neither the lifecycle state nor
\* the CookieToken table, clears the hub cookie (and the backend cookie of
\* the resolved identity when it has a server) and redirects to the login
\* URL with next = the requested path; only requests of the path's user are
\* ever in the spawn branch.
C9_MismatchRefused ==
    [][\A r \in Requests :
          /\ \A h \in Headers, name \in Users :
                (/\ req[r].pc = "idle" /\ req'[r].pc # "idle"
                 /\ get_current_user(h, jar).user # name
                 /\ GetStart(r, h, name))
                => LET who == get_current_user(h, jar).user
                       ops == req'[r].cookies
                   IN
                   /\ req'[r].pc = "responded"
                   /\ req'[r].resp = "login"
                   /\ req'[r].location =
                          [url |-> LoginUrl, next |-> RequestPath(name)]
                   /\ UNCHANGED <<cookieTokens, spawner, server, route, proc,
                                  watch>>
                   /\ ops # <<>>
                   /\ ops[Len(ops)] =
                          [name |-> HubCookieName, value |-> NoCookie,
                           path |-> HubBaseUrl]
                   /\ ApplyCookies(jar, ops) = NoCookie
                   /\ (who # None /\ server[who] # NoGen)
                      <=> (\E i \in DOMAIN ops :
                              ops[i] = [name |-> ServerCookieName(who),
                                        value |-> NoCookie,
                                        path |-> ServerBaseUrl(who)])
          /\ req'[r].pc \in {"poll", "spawn", "addroute"}
             => req'[r].user = req'[r].name]_vars

\* C9 witness: bob, who has a server, asked for alice's path with his API
\* token and was sent to the login page.
C9_Witness ==
    \E r \in Requests :
        /\ req[r].pc = "responded" /\ req[r].resp = "login"
        /\ req[r].name = "alice"
        /\ req[r].auth.user = "bob"
        /\ req[r].auth.touched
        /\ \E i \in DOMAIN req[r].cookies :
              req[r].cookies[i].name = ServerCookieName("bob")

\* C10: the redirect to the backend is emitted only when the user's backend
\* has been started and the proxy routes to it, and a request whose spawn or
\* route registration fails mints no CookieToken, sets no cookie and is not
\* redirected to the backend.
C10_DispatchOrdering ==
    [][\A r \in Requests :
          /\ (req[r].pc # "responded" /\ req'[r].pc = "responded"
              /\ req'[r].resp = "backend")
             => LET u == req'[r].user IN
                /\ server'[u] # NoGen
                /\ proc'[u][server'[u]] # "unused"
                /\ route'[u] = server'[u]
          /\ (req[r].pc # "responded" /\ req'[r].pc = "responded"
              /\ req'[r].resp = "error")
             => /\ cookieTokens' = cookieTokens
                /\ \A i \in DOMAIN req'[r].cookies :
                      req'[r].cookies[i].value = NoCookie]_vars

\* C11: write_error never raises: for every status code and every cause,
\* also none at all, it ends by writing an HTML page, a missing
\* status-specific template being replaced by the generic one.
C11_ErrorPageNeverRaises ==
    \A r \in Requests :
        (req[r].pc = "responded" /\ req[r].resp = "page")
        => /\ req[r].page.raised = "none"
           /\ req[r].page.template \in {"403.html", "404.html", "500.html",
                                        "error.html"}

\* C12: a request never starts a spawn for a user while another request's
\* spawn of the same user is in flight (suspended in user.spawn or in
\* proxy.add_user): concurrent dispatches start one backend only.
C12_SpawnDeduplicated ==
    [][\A r \in Requests :
          (req[r].pc # "spawn" /\ req'[r].pc = "spawn")
          => \A r2 \in Requests \ {r} :
                ~(/\ req[r2].pc \in {"spawn", "addroute"}
                  /\ req[r2].user = req'[r].user)]_vars

\* C13: the watchdog fired for backend k never deletes the route of, stops,
\* or clears the record (user.spawner, user.server) of another backend of
\* the user, spawned after the exit it was fired for.
C13_WatchdogSparesNewBackend ==
    [][\A u \in Users, k \in Gens :
          (/\ watch[u][k].pc \in {"delete", "stop"}
           /\ watch'[u][k].pc # watch[u][k].pc)
          => /\ route[u] # k => route'[u] = route[u]
             /\ \A k2 \in Gens \ {k} : proc'[u][k2] = proc[u][k2]
             /\ spawner[u] # k => spawner'[u] = spawner[u]
             /\ server[u] # k => server'[u] = server[u]]_vars

\* C14: in spawn_single_user add_user is called only when user.spawn has
\* just completed successfully, a route is registered and a poll callback
\* installed only when add_user completes, and a failed user.spawn ends the
\* request with no route and no callback added; so the proxy never routes to
\* a backend that was not started.
C14_RouteFollowsSpawn ==
    [][/\ \A r \in Requests :
            /\ (req[r].pc # "addroute" /\ req'[r].pc = "addroute")
               => /\ req[r].pc = "spawn"
                  /\ proc[req[r].user][req'[r].handle] = "unused"
                  /\ proc'[req[r].user][req'[r].handle] = "alive"
                  /\ UNCHANGED <<route, watch>>
            /\ (req[r].pc = "spawn" /\ req'[r].pc = "responded")
               => /\ req'[r].resp = "error"
                  /\ UNCHANGED lifeVars
       /\ \A u \in Users :
            /\ (route'[u] # route[u] /\ route'[u] # NoGen)
               => /\ proc[u][route'[u]] # "unused"
                  /\ \E r \in Requests :
                        /\ req[r].pc = "addroute" /\ req'[r].pc = "responded"
                        /\ req[r].user = u /\ req[r].handle = route'[u]
            /\ \A k \in Gens :
                 watch'[u][k].n > watch[u][k].n
                 => /\ route'[u] # NoGen
                    /\ \E r \in Requests :
                          /\ req[r].pc = "addroute"
                          /\ req'[r].resp = "backend"
                          /\ req[r].user = u
       /\ \A u \in Users :
            route'[u] # NoGen => proc'[u][route'[u]] # "unused"]_vars

\* C14 witness: the first dispatch of a user has spawned the backend,
\* registered its route and installed its poll callback.
C14_Witness ==
    \E r \in Requests :
        /\ req[r].pc = "responded" /\ req[r].resp = "backend"
        /\ Cardinality({t \in TokenIds : cookieTokens[t] # None}) = 2
        /\ req[r].handle # NoGen
        /\ route[req[r].user] = req[r].handle
        /\ proc[req[r].user][req[r].handle] = "alive"
        /\ watch[req[r].user][req[r].handle] =
               [pc |-> "armed", handle |-> NoGen, n |-> 1]

\* C15: when no lifecycle operation is in flight for a user, every backend
\* started for the user that is still running has its proxy route and its
\* poll callback.
C15_NoOrphanedProcess ==
    \A u \in Users, k \in Gens :
        (Quiescent(u) /\ proc[u][k] = "alive")
        => /\ route[u] = k
           /\ watch[u][k].pc = "armed"

\* C16: once a backend has exited on its own and a later request has
\* spawned a new one (which has not exited on its own), then, when no
\* request and no watchdog is at work for the user any more, the new backend
\* is alive, routed to, and recorded as user.spawner and user.server.
C16_SelfHealing ==
    \A u \in Users : \A k \in Gens, k2 \in Gens :
        (/\ Quiescent(u)
         /\ k < k2
         /\ proc[u][k] = "exited"
         /\ proc[u][k2] \notin {"unused", "exited"})
        => /\ proc[u][k2] = "alive"
           /\ route[u] = k2
           /\ server[u] = k2
           /\ spawner[u] = k2

\* The CookieToken rows a step adds.
Minted == {t \in TokenIds : cookieTokens[t] = None /\ cookieTokens'[t] # None}

\* C17: one set_login_cookie(user) adds exactly one CookieToken set under the
\* backend cookie if and only if user.server is set, and exactly one set
\* under the hub cookie if and only if the request's hub cookie does not pass
\* the cookie check; all new rows belong to the user, and no other step of a
\* request adds a row.
C17_MintingRule ==
    [][\A r \in Requests :
          IF req[r].pc # "responded" /\ req'[r].pc = "responded"
             /\ req'[r].resp = "backend"
          THEN LET u == req[r].user
                   ops == req'[r].cookies
                   backend == {t \in Minted : \E i \in DOMAIN ops :
                                  ops[i] = [name |-> ServerCookieName(u),
                                            value |-> t,
                                            path |-> ServerBaseUrl(u)]}
                   hub == {t \in Minted : \E i \in DOMAIN ops :
                              ops[i] = [name |-> HubCookieName, value |-> t,
                                        path |-> HubBaseUrl]}
               IN  /\ Minted = backend \cup hub
                   /\ backend \cap hub = {}
                   /\ \A t \in Minted : cookieTokens'[t] = u
                   /\ Cardinality(backend) =
                          IF server[u] # NoGen THEN 1 ELSE 0
                   /\ Cardinality(hub) =
                          IF CookieTokenFind(cookieTokens, req[r].token) = None
                          THEN 1 ELSE 0
          ELSE (req'[r] # req[r]) => Minted = {}]_vars

\* C17 witness: a dispatch that carried a valid hub cookie, for a user with a
\* server, has added one row to the two of the user's first dispatch.
C17_Witness ==
    \E r \in Requests :
        /\ req[r].pc = "responded" /\ req[r].resp = "backend"
        /\ ~req[r].auth.touched
        /\ CookieTokenFind(cookieTokens, req[r].token) = req[r].user
        /\ server[req[r].user] # NoGen
        /\ Cardinality({t \in TokenIds : cookieTokens[t] # None}) = 3

\* C18: no step removes or changes a CookieToken row: every token value that
\* resolves to a user keeps resolving to that user; and a request answered
\* with the login redirect (clear_login_cookie) leaves the table and the
\* users' server and spawner fields as they were.
C18_ClearIsCookieSideOnly ==
    [][/\ \A t \in TokenIds :
            cookieTokens[t] # None
            => CookieTokenFind(cookieTokens', t) = cookieTokens[t]
       /\ \A r \in Requests :
            (req[r].pc = "idle" /\ req'[r].pc = "responded"
             /\ req'[r].resp = "login")
            => UNCHANGED <<cookieTokens, spawner, server>>]_vars

\* C18 witness: a request that carried a valid cookie token of a user with a
\* server was answered with the login redirect, both cookies cleared, and
\* the token still resolves to the user.
C18_Witness ==
    \E r \in Requests :
        /\ req[r].pc = "responded" /\ req[r].resp = "login"
        /\ ~req[r].auth.touched
        /\ req[r].auth.user # None
        /\ CookieTokenFind(cookieTokens, req[r].token) = req[r].auth.user
        /\ server[req[r].auth.user] # NoGen
        /\ Len(req[r].cookies) = 2

\* C19: a request whose Authorization header is well formed but names no
\* APIToken is handled exactly as the same request without the header: the
\* same identity from the cookie check, the same cookie cleared or not, no
\* last_activity written, the same branch of the dispatch with the same
\* response, and never an error.
C19_UnknownTokenIsNoHeader ==
    [][\A r \in Requests, h \in Headers, name \in Users :
          (/\ req[r].pc = "idle" /\ req'[r].pc # "idle"
           /\ AuthHeaderMatch(h)
           /\ h[2] \notin DOMAIN APITokens
           /\ GetStart(r, h, name))
          => LET a == get_current_user(<<>>, jar) IN
             /\ req'[r].auth = a
             /\ req'[r].auth = get_current_user_cookie(jar)
                                   @@ [touched |-> FALSE]
             /\ req'[r].user = a.user
             /\ req'[r].resp # "error"
             /\ IF Matches(a.user, name)
                THEN /\ req'[r].pc \in {"poll", "spawn"}
                     /\ req'[r].cookies = a.cookies
                ELSE /\ req'[r].pc = "responded"
                     /\ req'[r].resp = "login"
                     /\ req'[r].cookies =
                            a.cookies \o clear_login_cookie(<<>>, jar).cookies
             /\ UNCHANGED <<cookieTokens, scopeOf, jar, lifeVars, stopper>>]_vars

\* C19 witness: a request with an unknown API token and a valid hub cookie
\* was authenticated by the cookie and dispatched to the user's backend.
C19_Witness ==
    \E r \in Requests :
        /\ req[r].header = <<"token", "tx">>
        /\ req[r].pc = "responded" /\ req[r].resp = "backend"
        /\ req[r].auth.user = "alice"
        /\ req[r].auth.lookups = 1
        /\ ~req[r].auth.touched

\* C20: when proxy.delete_user fails in stop_single_user or in user_stopped
\* the coroutine ends there and changes no lifecycle field; user.stop() is
\* called only in the step in which delete_user has succeeded, and
\* user.spawner and user.server are cleared only by a user.stop() so called.
C20_TeardownStopsAtFailedDelete ==
    [][\A u \in Users :
          /\ StopDeleteReturn(u, FALSE)
             => /\ UNCHANGED <<spawner, server, route, proc>>
                /\ stopper'[u] = [stopper[u] EXCEPT !.pc = "idle"]
          /\ (stopper[u].pc # "stop" /\ stopper'[u].pc = "stop")
             => /\ stopper[u].pc = "delete"
                /\ route'[u] = NoGen
          /\ \A k \in Gens :
                /\ WatchdogDeleteReturn(u, k, FALSE)
                   => /\ UNCHANGED <<spawner, server, route, proc>>
                      /\ watch'[u][k] = [watch[u][k] EXCEPT !.pc = "done"]
                /\ (watch[u][k].pc # "stop" /\ watch'[u][k].pc = "stop")
                   => /\ watch[u][k].pc = "delete"
                      /\ route'[u] = NoGen
          /\ ((spawner'[u] = NoGen /\ spawner[u] # NoGen)
              \/ (server'[u] = NoGen /\ server[u] # NoGen))
             => \/ (stopper[u].pc = "stop" /\ stopper'[u].pc = "idle")
                \/ \E k \in Gens :
                      (watch[u][k].pc = "stop" /\ watch'[u][k].pc = "done")]_vars

\* C20 witness: the watchdog of an exited backend has ended at a failed
\* delete_user: the route, user.spawner and user.server still name the
\* exited backend.
C20_Witness ==
    \E u \in Users, k \in Gens :
        /\ watch[u][k].pc = "done"
        /\ proc[u][k] = "exited"
        /\ route[u] = k
        /\ spawner[u] = k
        /\ server[u] = k

=============================================================================
